---- MODULE Spec2Model ----
(***************************************************************************)
(* manta: a terminal work/rest timer (bubbletea model).                    *)
(*                                                                         *)
(* The state is the `model` struct of internal/ (timeLeft, timeType,       *)
(* cursor, pause, endTime and the progress bar's width, target percent and *)
(* animation); every                                                       *)
(* action is one case of model.Update, handled atomically by the           *)
(* single-threaded event loop.  The commands a handler issues (the sound,  *)
(* the notification, the tick it arms, tea.Quit) are recorded in `cmds`.   *)
(*                                                                         *)
(* The progress target is a float64 in the code: 1.0 - timeLeft/D for      *)
(* D = work or rest, clamped to [0, 1] by progress.SetPercent.  Here it is *)
(* the exact rational with the common denominator PercentOne = work*rest,  *)
(* kept as its numerator.  Correctly rounded float64 division and          *)
(* subtraction are functions of the exact value, monotone, and give 1.0    *)
(* only for the exact value 1 on this range (1/work is far above the       *)
(* float64 epsilon), so equality with 1.0 and ordering are the same on     *)
(* both representations.                                                   *)
(*                                                                         *)
(* Time is a logical clock that advances one second with every handled     *)
(* Tick.  endTime is kept relative to it, as endTime - now (`in`), so that *)
(* the clock itself need not be a variable: time.Now().Add(timeLeft) is    *)
(* `in = timeLeft`, and a second passing is `in` going down by one.        *)
(*                                                                         *)
(* Spec is the timer under keys and Ticks; ResizeSpec and FrameSpec add    *)
(* the terminal's resizes and the animation's frames, which write only the *)
(* bar's width and animation; CountdownSpec has all of these but "q" and   *)
(* "esc".  FairSpec is Spec with Ticks fired and handled fairly.           *)
(***************************************************************************)
EXTENDS Integers, Sequences, FiniteSets, TLC

\* ---------------------------------------------------------------- constants

work == 1500
rest == 300
WORKTIME == "work"
RESTTIME == "rest"

mapping == (WORKTIME :> work) @@ (RESTTIME :> rest)

\* choices, 0-based as in Go
choices == [i \in 0..1 |-> IF i = 0 THEN WORKTIME ELSE RESTTIME]
NumChoices == Cardinality(DOMAIN choices)

padding == 2
maxWidth == 80

\* the width of progress.New(): the library's default
defaultWidth == 40

\* ------------------------------------------------------------------- bounds

\* Ticks handled while Idle decrement timeLeft without limit; the model
\* stops delivering them once timeLeft = -MaxIdleTicks, or once MaxIdleTicks of
\* them were handled since the last "enter".
MaxIdleTicks == 2

\* Ticks handled while paused move the clock past endTime without limit; the
\* model stops delivering them once now + timeLeft is MaxPausedTicks past
\* endTime.
MaxPausedTicks == 1

\* the terminal widths a resize reports: one that gives the default bar
\* width and one that is cut to maxWidth
Widths == {48, 100}

\* the widest terminal ResizeWidth is tabulated for
MaxTermWidth == 200

\* ----------------------------------------------------------------- commands

TickCmd == <<"tick", "">>
SoundCmd == <<"sound", "">>
QuitCmd == <<"quit", "">>
FrameCmd == <<"frame", "">>
\* notify(fmt.Sprintf("Time to %s is left", timeType), ""): the title is
\* represented by the phase it names.
NotifyCmd(tt) == <<"notify", tt>>

\* -------------------------------------------------------------------- state

VARIABLES
    timeLeft,   \* model.timeLeft
    timeType,   \* model.timeType
    cursor,     \* model.cursor
    pause,      \* model.pause
    percent,    \* model.progress target percent, numerator over PercentOne
    width,      \* model.progress.Width
    anim,       \* model.progress animation: "running" while a frame is due, else "none"
    endTime,    \* model.endTime: [set, in], in = endTime - now when set
    armed,      \* timers armed by tickCmd() that have not fired yet
    queued,     \* tickMsg events emitted by a timer and not yet handled
    quit,       \* tea.Quit was issued: the program loop has ended
    cmds,       \* commands issued by the last handled event, in order
    last,       \* the last handled event ("init" before any)
    hist        \* history of the countdown since the last "enter"

vars == <<timeLeft, timeType, cursor, pause, percent, width, anim, endTime,
          armed, queued, quit, cmds, last, hist>>

\* ------------------------------------------------------------ pure functions

PercentOne == work * rest

\* mutant: the fraction left instead of the fraction elapsed
FractionLeft(tl, d) == tl * (PercentOne \div d)

\* 1.0 - float64(tl)/float64(d)
Fraction(tl, d) == PercentOne - tl * (PercentOne \div d)

\* percent := 0.0; if timeType == WORKTIME {...}; if timeType == RESTTIME {...}
TickPercent(tl, tt) ==
    LET p0 == 0
        p1 == IF tt = WORKTIME THEN Fraction(tl, work) ELSE p0
        p2 == IF tt = RESTTIME THEN Fraction(tl, rest) ELSE p1
    IN  p2

\* progress.SetPercent: the target is clamped to [0, 1]
SetPercent(p) == IF p < 0 THEN 0 ELSE IF p > PercentOne THEN PercentOne ELSE p

\* mutant: the completion check accepts any timeLeft <= 0
CompletedRepeats(pc, tl) == pc = PercentOne /\ tl <= 0

\* mutant: the completion check is made on the value after the decrement
CompletedAtDecrement(pc, tl) == tl - 1 = 0

\* the completion check of the tick handler
Completed(pc, tl) == pc = PercentOne /\ tl = 0

\* mutant: the two durations are swapped
EnterTimeLeftSwapped(c) ==
    CASE choices[c] = WORKTIME -> rest
      [] choices[c] = RESTTIME -> work

\* "enter": the switch on choices[m.cursor]
EnterTimeLeft(c) ==
    CASE choices[c] = WORKTIME -> work
      [] choices[c] = RESTTIME -> rest

\* mutant: the phase is not switched
EnterTimeTypeStuck(c) == WORKTIME

EnterTimeType(c) ==
    CASE choices[c] = WORKTIME -> WORKTIME
      [] choices[c] = RESTTIME -> RESTTIME

\* "down"/"j"
CursorDown(c) == IF c + 1 >= NumChoices THEN 0 ELSE c + 1

\* mutant: no wrap below 0
CursorUpNoWrap(c) == c - 1

\* "up"/"k"
CursorUp(c) == IF c - 1 < 0 THEN NumChoices - 1 ELSE c - 1

\* mutant: the menu is shown only below 0
ViewStrict(tl) == IF tl < 0 THEN "menu" ELSE "countdown"

ViewExact(tl) == IF tl = 0 THEN "menu" ELSE "countdown"

\* model.View: which of the two layouts is rendered
View(tl) == IF tl <= 0 THEN "menu" ELSE "countdown"

\* time.Time{}: endTime before it is first assigned
ZeroTime == [set |-> FALSE, in |-> 0]

\* time.Now().Add(time.Duration(tl) * time.Second)
NowPlus(tl) == [set |-> TRUE, in |-> tl]

\* a time after one more second of the clock
Elapse(t) == IF t.set THEN [t EXCEPT !.in = @ - 1] ELSE t

\* how far now + timeLeft is past endTime
Lag == IF endTime.set THEN timeLeft - endTime.in ELSE 0

ResizeWidthNoClamp(w) == w - padding * 2 - 4

\* tea.WindowSizeMsg: msg.Width - padding*2 - 4, at most maxWidth
ResizeWidth(w) ==
    LET pw == w - padding * 2 - 4
    IN  IF pw > maxWidth THEN maxWidth ELSE pw

\* the duration of the current phase
totalSeconds == mapping[timeType]

\* --------------------------------------------------------------------- Init

\* hist is history, not program state:
\*   clean   only Ticks were handled since the last "enter"
\*   synced  an unpaused Tick was handled since the last "enter"
\*   ticks, notes, sounds   unpaused Ticks handled, and notifications and
\*           sounds issued, since the last "enter", while clean
\*   live    "enter" was handled and no "esc" since
\*   run     unpaused Ticks handled since the last "enter", while live
\*   idle    unpaused Ticks handled with timeLeft <= 0 since the last "enter"
\*   owed    the phase in which the last unpaused Tick handled brought
\*           timeLeft to 0 ("" if it did not)
NoHist == [clean |-> FALSE, synced |-> FALSE, ticks |-> 0, notes |-> 0, sounds |-> 0,
           live |-> FALSE, run |-> 0, idle |-> 0, owed |-> ""]

\* NewModel() and model.Init()
Init ==
    /\ timeLeft = 0
    /\ timeType = WORKTIME
    /\ cursor = 0
    /\ pause = FALSE
    /\ percent = 0
    /\ width = defaultWidth
    /\ anim = "none"
    /\ endTime = ZeroTime
    /\ armed = 1
    /\ queued = 0
    /\ quit = FALSE
    /\ cmds = <<TickCmd>>
    /\ last = "init"
    /\ hist = NoHist

\* a key other than "enter" ends the run of Ticks alone
Touched == [hist EXCEPT !.clean = FALSE, !.ticks = 0, !.notes = 0, !.sounds = 0]

\* ------------------------------------------------------------------ actions

KeyQuitResets ==
    /\ ~quit
    /\ quit' = TRUE
    /\ timeLeft' = 0
    /\ cmds' = <<QuitCmd>>
    /\ last' = "q"
    /\ UNCHANGED <<timeType, cursor, pause, percent, width, anim, endTime,
                   armed, queued, hist>>

\* case "ctrl+c", "q"
KeyQuit ==
    /\ ~quit
    /\ quit' = TRUE
    /\ cmds' = <<QuitCmd>>
    /\ last' = "q"
    /\ UNCHANGED <<timeLeft, timeType, cursor, pause, percent, width, anim, endTime,
                   armed, queued, hist>>

\* case "enter"
KeyEnter ==
    /\ ~quit
    /\ timeLeft' = EnterTimeLeft(cursor)
    /\ timeType' = EnterTimeType(cursor)
    /\ cmds' = <<>>
    /\ last' = "enter"
    /\ endTime' = NowPlus(timeLeft')
    /\ hist' = [clean |-> TRUE, synced |-> FALSE, ticks |-> 0, notes |-> 0, sounds |-> 0,
                live |-> TRUE, run |-> 0, idle |-> 0, owed |-> hist.owed]
    /\ UNCHANGED <<cursor, pause, percent, width, anim, armed, queued, quit>>

\* case "down", "j"
KeyDown ==
    /\ ~quit
    /\ cursor' = CursorDown(cursor)
    /\ cmds' = <<>>
    /\ last' = "down"
    /\ hist' = Touched
    /\ UNCHANGED <<timeLeft, timeType, pause, percent, width, anim, endTime,
                   armed, queued, quit>>

KeySpaceFromClock ==
    /\ ~quit
    /\ timeLeft' = IF pause /\ endTime.set THEN endTime.in ELSE timeLeft
    /\ endTime' = NowPlus(timeLeft')
    /\ pause' = ~pause
    /\ cmds' = <<>>
    /\ last' = "space"
    /\ hist' = Touched
    /\ UNCHANGED <<timeType, cursor, percent, width, anim, armed, queued, quit>>

KeySpaceKeepsEnd ==
    /\ ~quit
    /\ pause' = ~pause
    /\ cmds' = <<>>
    /\ last' = "space"
    /\ hist' = Touched
    /\ UNCHANGED <<timeLeft, timeType, cursor, percent, width, anim, endTime,
                   armed, queued, quit>>

\* case " "
KeySpace ==
    /\ ~quit
    /\ endTime' = NowPlus(timeLeft)
    /\ pause' = ~pause
    /\ cmds' = <<>>
    /\ last' = "space"
    /\ hist' = Touched
    /\ UNCHANGED <<timeLeft, timeType, cursor, percent, width, anim, armed, queued, quit>>

\* case "esc"
KeyEsc ==
    /\ ~quit
    /\ timeLeft' = 0
    /\ pause' = FALSE
    /\ cmds' = <<>>
    /\ last' = "esc"
    /\ hist' = [Touched EXCEPT !.live = FALSE, !.run = 0]
    /\ UNCHANGED <<timeType, cursor, percent, width, anim, endTime, armed, queued, quit>>

\* case "up", "k"
KeyUp ==
    /\ ~quit
    /\ cursor' = CursorUp(cursor)
    /\ cmds' = <<>>
    /\ last' = "up"
    /\ hist' = Touched
    /\ UNCHANGED <<timeLeft, timeType, pause, percent, width, anim, endTime,
                   armed, queued, quit>>

\* tickCmd(): the armed timer fires after about a second and emits one
\* tickMsg into the event queue
TickFire ==
    /\ ~quit
    /\ armed > 0
    /\ armed' = armed - 1
    /\ queued' = queued + 1
    /\ UNCHANGED <<timeLeft, timeType, cursor, pause, percent, width, anim, endTime,
                   quit, cmds, last, hist>>

\* mutant: the paused path decrements like the unpaused one
TickPausedDecrements ==
    /\ ~quit
    /\ queued > 0
    /\ pause
    /\ timeLeft > -MaxIdleTicks
    /\ timeLeft' = timeLeft - 1
    /\ queued' = queued - 1
    /\ armed' = armed + 1
    /\ cmds' = <<TickCmd>>
    /\ last' = "tick"
    /\ endTime' = Elapse(endTime)
    /\ UNCHANGED <<timeType, cursor, pause, percent, width, anim, quit, hist>>

\* mutant: the paused path returns without re-arming the tick
TickPausedNoRearm ==
    /\ ~quit
    /\ queued > 0
    /\ pause
    /\ queued' = queued - 1
    /\ cmds' = <<>>
    /\ last' = "tick"
    /\ endTime' = Elapse(endTime)
    /\ UNCHANGED <<timeLeft, timeType, cursor, pause, percent, width, anim, armed, quit, hist>>

\* case tickMsg, if m.pause { return m, tickCmd() }
TickPaused ==
    /\ ~quit
    /\ queued > 0
    /\ pause
    /\ Lag < MaxPausedTicks
    /\ queued' = queued - 1
    /\ armed' = armed + 1
    /\ cmds' = <<TickCmd>>
    /\ last' = "tick"
    /\ endTime' = Elapse(endTime)
    /\ UNCHANGED <<timeLeft, timeType, cursor, pause, percent, width, anim, quit, hist>>

\* case tickMsg, the rest of the handler
TickRun ==
    /\ ~quit
    /\ queued > 0
    /\ ~pause
    /\ timeLeft > -MaxIdleTicks
    /\ timeLeft <= 0 => hist.idle < MaxIdleTicks
    /\ LET done == Completed(percent, timeLeft)
           side == IF done THEN <<SoundCmd, NotifyCmd(timeType)>> ELSE <<>>
           h1 == IF hist.clean
                 THEN [hist EXCEPT !.ticks = @ + 1,
                                   !.notes = @ + (IF done THEN 1 ELSE 0),
                                   !.sounds = @ + (IF done THEN 1 ELSE 0)]
                 ELSE hist
       IN  /\ timeLeft' = timeLeft - 1
           /\ percent' = SetPercent(TickPercent(timeLeft', timeType))
           /\ anim' = "running"
           /\ cmds' = side \o <<TickCmd, FrameCmd>>
           /\ hist' = [h1 EXCEPT !.synced = TRUE,
                                 !.run = IF hist.live THEN @ + 1 ELSE @,
                                 !.idle = IF timeLeft <= 0 THEN @ + 1 ELSE @,
                                 !.owed = IF timeLeft = 1 THEN timeType ELSE ""]
    /\ queued' = queued - 1
    /\ armed' = armed + 1
    /\ last' = "tick"
    /\ endTime' = Elapse(endTime)
    /\ UNCHANGED <<timeType, cursor, pause, width, quit>>

TickMsg == TickPaused \/ TickRun

\* case tea.WindowSizeMsg
Resize(w) ==
    /\ ~quit
    /\ width' = ResizeWidth(w)
    /\ cmds' = <<>>
    /\ last' = "resize"
    /\ hist' = Touched
    /\ UNCHANGED <<timeLeft, timeType, cursor, pause, percent, anim, endTime,
                   armed, queued, quit>>

WindowSizeMsg == \E w \in Widths : Resize(w)

FrameMsgRearms ==
    /\ ~quit
    /\ anim = "running"
    /\ anim' \in {"running", "none"}
    /\ cmds' = <<TickCmd, FrameCmd>>
    /\ last' = "frame"
    /\ hist' = Touched
    /\ UNCHANGED <<timeLeft, timeType, cursor, pause, percent, width, endTime,
                   armed, queued, quit>>

\* case progress.FrameMsg: m.progress.Update(msg).  A frame of the running
\* animation is handled: the bar shown moves towards the target and the next
\* frame is requested, or the bar has settled and the animation stops with no
\* command.  Where the bar is shown is not modelled, so either may happen;
\* the target is not touched.
FrameMsg ==
    /\ ~quit
    /\ anim = "running"
    /\ \/ anim' = "running" /\ cmds' = <<FrameCmd>>
       \/ anim' = "none" /\ cmds' = <<>>
    /\ last' = "frame"
    /\ hist' = Touched
    /\ UNCHANGED <<timeLeft, timeType, cursor, pause, percent, width, endTime,
                   armed, queued, quit>>

Next ==
    \/ KeyQuit
    \/ KeyEnter
    \/ KeyDown
    \/ KeySpace
    \/ KeyEsc
    \/ KeyUp
    \/ TickFire
    \/ TickPaused
    \/ TickRun

Spec == Init /\ [][Next]_vars

\* the same with the terminal's resizes
ResizeNext == Next \/ WindowSizeMsg

ResizeSpec == Init /\ [][ResizeNext]_vars

\* the same with the animation's frames
FrameNext == Next \/ FrameMsg

FrameSpec == Init /\ [][FrameNext]_vars

\* the countdowns by themselves: every message but "q" and "esc"
CountdownNext ==
    \/ KeyEnter
    \/ KeyDown
    \/ KeySpace
    \/ KeyUp
    \/ TickFire
    \/ TickPaused
    \/ TickRun
    \/ WindowSizeMsg
    \/ FrameMsg

CountdownSpec == Init /\ [][CountdownNext]_vars

\* The runtime delivers a fired tick and handles a queued one eventually.
FairSpec == Spec /\ WF_vars(TickFire) /\ WF_vars(TickMsg)

\* ------------------------------------------------------------------- claims

\* a step that handles a Tick takes one tickMsg off the queue
HandlesTick == queued' = queued - 1

\* a step that handles key k records it and leaves the tick source alone
HandlesKey(k) == last' = k /\ UNCHANGED <<armed, queued>>

Count(seq, c) == Cardinality({i \in DOMAIN seq : seq[i] = c})

Notifies(seq) == Cardinality({i \in DOMAIN seq : seq[i][1] = "notify"})

\* C1: in a countdown started by "enter" and run by Ticks alone, exactly one
\* sound and one notification (naming the phase) are issued, by the Tick
\* handled with timeLeft = 0 and the target at 1.0; no Tick before or after
\* it issues any.
C1_CompletionOnce ==
    hist.clean =>
        /\ hist.notes = hist.sounds
        /\ hist.notes = (IF timeLeft < 0 THEN 1 ELSE 0)
        /\ (last = "tick" /\ timeLeft = -1) =>
                cmds = <<SoundCmd, NotifyCmd(timeType), TickCmd, FrameCmd>>
        /\ (last = "tick" /\ timeLeft # -1) =>
                (Count(cmds, SoundCmd) = 0 /\ Notifies(cmds) = 0)

C1_Witness ==
    /\ hist.clean
    /\ timeLeft = -2
    /\ hist.notes = 1
    /\ hist.sounds = 1
    /\ last = "tick"
    /\ Notifies(cmds) = 0

\* C2: a Tick handled while pause is set changes neither timeLeft nor
\* timeType, cursor, pause or the progress target; it issues only the
\* command that re-arms the tick.
C2_PausedTickFrame ==
    [][(HandlesTick /\ pause) =>
          /\ UNCHANGED <<timeLeft, timeType, cursor, pause, percent>>
          /\ cmds' = <<TickCmd>>
          /\ armed' = armed + 1]_vars

C2_Witness ==
    /\ last = "tick"
    /\ pause
    /\ cmds = <<TickCmd>>
    /\ timeLeft > 0
    /\ timeLeft < totalSeconds
    /\ armed = 1

\* C3: a Tick handled while a countdown is active and not paused decrements
\* timeLeft by exactly 1 and sets the target to 1 - timeLeft/totalSeconds;
\* from one Tick of the countdown to the next the target does not decrease,
\* and it is 1.0 exactly when timeLeft is 0.
C3_TickDecrements ==
    [][(HandlesTick /\ ~pause /\ timeLeft > 0) =>
          /\ timeLeft' = timeLeft - 1
          /\ percent' * totalSeconds = PercentOne * (totalSeconds - timeLeft')
          /\ (hist.synced => percent' >= percent)
          /\ (percent' = PercentOne <=> timeLeft' = 0)]_vars

C3_Witness ==
    /\ last = "tick"
    /\ ~pause
    /\ hist.synced
    /\ ~hist.clean
    /\ timeType = RESTTIME
    /\ timeLeft = 0
    /\ percent = PercentOne

\* C4: after "enter" with the cursor on Work the phase is Work and
\* timeLeft = totalSeconds = 1500; with the cursor on Rest the phase is Rest
\* and both are 300.
C4_SelectSetsDuration ==
    last = "enter" =>
        /\ timeType = choices[cursor]
        /\ \/ cursor = 0 /\ timeType = "work" /\ timeLeft = 1500 /\ totalSeconds = 1500
           \/ cursor = 1 /\ timeType = "rest" /\ timeLeft = 300 /\ totalSeconds = 300

C4_Witness ==
    /\ last = "enter"
    /\ cursor = 1
    /\ timeType = RESTTIME
    /\ timeLeft = 300
    /\ percent = PercentOne

\* C5: after "enter" is handled pause is false.
C5_SelectClearsPause == last = "enter" => ~pause

\* C6: cursor stays in [0, 2); "up" at 0 gives 1 and "down" at 1 gives 0,
\* otherwise "down" adds 1 and "up" subtracts 1.
C6_CursorWraps ==
    /\ [](cursor \in 0..1)
    /\ [][/\ HandlesKey("down") => cursor' = (IF cursor = 1 THEN 0 ELSE cursor + 1)
          /\ HandlesKey("up") => cursor' = (IF cursor = 0 THEN 1 ELSE cursor - 1)]_vars

C6_Witness ==
    /\ last = "up"
    /\ cursor = 1
    /\ timeLeft > 0

\* C7: after "esc" is handled, from any state, timeLeft = 0 and pause is
\* false, and the view rendered is the menu.
C7_ResetToMenu ==
    last = "esc" =>
        /\ timeLeft = 0
        /\ ~pause
        /\ View(timeLeft) = "menu"

C7_Witness ==
    /\ last = "esc"
    /\ timeType = RESTTIME
    /\ percent > 0
    /\ percent < PercentOne
    /\ View(timeLeft) = "menu"

\* C8 (as stated): in every reachable state 0 <= timeLeft <= totalSeconds.
C8_Bounded == 0 <= timeLeft /\ timeLeft <= totalSeconds

\* C8 (amended): timeLeft <= totalSeconds in every reachable state, and
\* timeLeft is below 0 only through unpaused Ticks handled while Idle
\* (timeLeft <= 0), each of which decrements it by 1.
C8_BoundedAbove ==
    /\ [](timeLeft <= totalSeconds)
    /\ [][timeLeft' < 0 =>
              \/ timeLeft' = timeLeft
              \/ HandlesTick /\ ~pause /\ timeLeft <= 0 /\ timeLeft' = timeLeft - 1]_vars

C8_Witness ==
    /\ timeLeft = -2
    /\ last = "tick"
    /\ ~hist.clean
    /\ cursor = 0
    /\ timeLeft <= totalSeconds

\* the countdown of Rest started by "enter" with the cursor on 1 and run by
\* n unpaused Ticks alone
RestRun(n) ==
    /\ hist.clean
    /\ ~pause
    /\ cursor = 1
    /\ timeType = RESTTIME
    /\ hist.ticks = n

\* C9 (as stated): "down", "enter" give cursor 1, Rest and timeLeft =
\* totalSeconds = 300; after exactly 300 Ticks timeLeft = 0 and the
\* notification has been issued exactly once, by the Tick that brought
\* timeLeft to 0.
C9_NotifiedAtZero ==
    /\ RestRun(0) => (timeLeft = 300 /\ totalSeconds = 300)
    /\ RestRun(300) =>
            /\ timeLeft = 0
            /\ hist.notes = 1
            /\ (last = "tick" => cmds = <<SoundCmd, NotifyCmd(RESTTIME), TickCmd, FrameCmd>>)

\* C9 (amended): "down", "enter" give cursor 1, Rest and timeLeft =
\* totalSeconds = 300; after exactly 300 Ticks timeLeft = 0 and nothing has
\* been issued yet; the 301st Tick, handled with timeLeft = 0, issues the
\* notification, exactly once.
C9_NotifiedAfterZero ==
    /\ RestRun(0) => (timeLeft = 300 /\ totalSeconds = 300)
    /\ \A n \in 1..300 : RestRun(n) =>
            /\ timeLeft = 300 - n
            /\ hist.notes = 0
            /\ (last = "tick" => cmds = <<TickCmd, FrameCmd>>)
    /\ RestRun(301) =>
            /\ timeLeft = -1
            /\ hist.notes = 1
            /\ (last = "tick" => cmds = <<SoundCmd, NotifyCmd(RESTTIME), TickCmd, FrameCmd>>)
    /\ (RestRun(hist.ticks) /\ hist.ticks > 301) => hist.notes = 1

C9_Witness ==
    /\ RestRun(301)
    /\ timeLeft = -1
    /\ hist.notes = 1
    /\ last = "tick"

\* the model's bounds have stopped the Ticks of an Idle timer, or of a paused
\* one
IdleSpent == timeLeft <= 0 /\ (timeLeft <= -MaxIdleTicks \/ hist.idle >= MaxIdleTicks)

PausedSpent == pause /\ Lag >= MaxPausedTicks

\* C10: one tick is armed at startup and one by every handled Tick, paused
\* or not, and by nothing else, so exactly one tick is armed or queued in
\* every reachable state; and Ticks keep being handled until "q" (or until
\* the model's bounds on Idle and paused ticks stop them).
C10_TickSource ==
    /\ [](armed + queued = 1)
    /\ [](Count(cmds, TickCmd) = (IF last \in {"init", "tick"} THEN 1 ELSE 0))
    /\ [][armed' > armed => (HandlesTick /\ armed' = armed + 1)]_vars
    /\ [][HandlesTick => armed' = armed + 1]_vars
    /\ \/ []<><<TickMsg>>_vars
       \/ <>[](quit \/ IdleSpent \/ PausedSpent)

C10_Witness ==
    /\ last = "tick"
    /\ pause
    /\ timeLeft = 0
    /\ armed = 0
    /\ queued = 1

\* ---------------------------------------------------------------- C11

Min(a, b) == IF a < b THEN a ELSE b

\* C11: a resize reporting width w sets the bar's width to
\* min(w - 2*2 - 4, 80), for every w (100 gives 80), and leaves timeLeft,
\* timeType, pause and cursor unchanged.
C11_ResizeWidth ==
    /\ \A w \in 0..MaxTermWidth : ResizeWidth(w) = Min(w - 2 * 2 - 4, 80)
    /\ ResizeWidth(100) = 80
    /\ [][HandlesKey("resize") =>
            /\ \E w \in Widths : width' = Min(w - 2 * 2 - 4, 80)
            /\ UNCHANGED <<timeLeft, timeType, pause, cursor>>]_vars
    /\ [](last = "resize" => \E w \in Widths : width = Min(w - 2 * 2 - 4, 80))

C11_Witness ==
    /\ last = "resize"
    /\ width = 80
    /\ pause
    /\ timeLeft > 0
    /\ timeLeft < totalSeconds

\* ---------------------------------------------------------------- C12

C13_SelectOnlyIdle ==
    [][(HandlesKey("enter") /\ timeLeft > 0) => UNCHANGED <<timeLeft, timeType>>]_vars

\* ---------------------------------------------------------------- C14

\* C14 as stated: the menu is rendered exactly when timeLeft = 0 and the
\* countdown otherwise.
C14_MenuAtZero ==
    /\ View(timeLeft) = "menu" <=> timeLeft = 0
    /\ View(timeLeft) = "countdown" <=> timeLeft # 0

\* C14: the menu is rendered exactly when timeLeft <= 0 and the countdown
\* exactly when timeLeft > 0.  (View is a function of the state: rendering
\* changes nothing.)
C14_MenuAtOrBelowZero ==
    /\ View(timeLeft) = "menu" <=> timeLeft <= 0
    /\ View(timeLeft) = "countdown" <=> timeLeft > 0

C14_Witness ==
    /\ timeLeft < 0
    /\ View(timeLeft) = "menu"
    /\ last = "tick"

\* ---------------------------------------------------------------- C15

\* C15: a handled frame changes only the bar's animation: timeLeft, timeType,
\* pause, cursor, the target percent (and width and endTime) are unchanged, no
\* sound and no notification is issued and no tick is armed.
C15_FrameOnlyAnimates ==
    [][HandlesKey("frame") =>
            /\ UNCHANGED <<timeLeft, timeType, pause, cursor, percent, width, endTime>>
            /\ Count(cmds', SoundCmd) = 0
            /\ Notifies(cmds') = 0
            /\ Count(cmds', TickCmd) = 0
            /\ armed' = armed]_vars

C15_Witness ==
    /\ last = "frame"
    /\ anim = "none"
    /\ cmds = <<>>
    /\ timeLeft > 0
    /\ percent > 0

\* ---------------------------------------------------------------- C16

\* C16: a Tick issues a notification only if, since the most recent "enter",
\* no "esc" was handled and unpaused Ticks have counted the whole duration
\* down to 0; in particular none is issued before the first "enter" or after
\* an "esc".
C16_NoSpuriousCompletion ==
    (last = "tick" /\ Notifies(cmds) > 0) => (hist.live /\ hist.run > totalSeconds)

\* ---------------------------------------------------------------- C17

\* C17: when a Tick has brought timeLeft to 0, the next Tick handled while
\* not paused issues the notification naming that phase, whatever keys
\* ("enter", cursor moves, " ") and paused Ticks are handled in between.  (It
\* is the only Tick that can: it sets the target again.)
C17_NoLostCompletion ==
    [][(HandlesTick /\ ~pause /\ hist.owed # "") =>
            Count(cmds', NotifyCmd(hist.owed)) = 1]_vars

\* ---------------------------------------------------------------- C18

\* C18: after "enter" selects a duration, and until the next "enter" or "esc",
\* timeLeft is the duration minus the number of Ticks handled while not
\* paused, whatever pauses, cursor moves, resizes and frames come in between;
\* so timeLeft is 0 after exactly that many unpaused Ticks.
C18_NoDrift == hist.live => timeLeft = totalSeconds - hist.run

C18_Witness ==
    /\ hist.live
    /\ ~hist.clean
    /\ timeLeft = 0
    /\ hist.run = rest
    /\ last = "tick"
    /\ width = maxWidth
    /\ anim = "none"

\* ---------------------------------------------------------------- C19

\* C19: with the clock advancing one second per handled Tick, endTime - now
\* = timeLeft whenever a countdown is active and not paused; "enter" and
\* " " set endTime to now + timeLeft, and no other event changes it (a
\* handled Tick moves only the clock).
C19_EndTimeTracks ==
    /\ []((timeLeft > 0 /\ ~pause) => (endTime.set /\ endTime.in = timeLeft))
    /\ [][(HandlesKey("enter") \/ HandlesKey("space")) =>
            endTime' = [set |-> TRUE, in |-> timeLeft']]_vars
    /\ [][HandlesTick => endTime' = Elapse(endTime)]_vars
    /\ [][(~HandlesTick /\ last' \notin {"enter", "space"}) => endTime' = endTime]_vars

C19_Witness ==
    /\ last = "space"
    /\ ~pause
    /\ hist.live
    /\ hist.run > 0
    /\ timeLeft > 0
    /\ endTime = [set |-> TRUE, in |-> timeLeft]

====
